---- MODULE Spec2Model ----
(***************************************************************************)
(* Model of the graceful-shutdown coordinator (GracefulShutdownService)    *)
(* and of the batched log writer (LogService) of the server.               *)
(*                                                                         *)
(* JavaScript runs one macrotask at a time; the microtasks a macrotask     *)
(* queues (promise continuations) run before the next macrotask (a timer,  *)
(* a signal handler, an I/O completion).  An action below is therefore a   *)
(* synchronous stretch of code, or the microtask drain that follows it.    *)
(***************************************************************************)
EXTENDS Integers, Sequences, FiniteSets, TLC

\* ------------------------------------------------------------------ bounds
MaxCleanups == 2
MaxShutdownCalls == 3
MaxLogs == 2
MaxBatchSize == 2

\* ------------------------------------------------- GracefulShutdownService
DefaultShutdownTimeout == 30000

\* values setShutdownTimeout is called with
TimeoutValues == {0, 5000, DefaultShutdownTimeout}

\* private signals = ["SIGTERM", "SIGINT", "SIGUSR2"]
signals == {"SIGTERM", "SIGINT", "SIGUSR2"}

\* what a registered CleanupFunction does when it is called:
\*   sync_ok     returns (void or an already resolved promise)
\*   sync_throw  throws before returning
\*   async       returns a promise that settles later, either way
\*   hang        returns a promise that never settles
\*   registers   calls registerCleanup of a sync_ok callback, then returns
CleanupKinds == {"sync_ok", "sync_throw", "async", "hang", "registers"}

VARIABLES
  cleanupFunctions,  \* Seq(CleanupKinds): this.cleanupFunctions
  isShuttingDown,    \* this.isShuttingDown
  shutdownTimeout,   \* this.shutdownTimeout
  invoked,           \* invoked[i]: how often cleanupFunctions[i] was called
  namedState,        \* namedState[i]: promise of namedCleanup i
  executeState,      \* promise of executeCleanup(): none/pending/fulfilled/rejected
  timer,             \* delays of the setTimeout calls made by shutdown()
  startLen,          \* cleanupFunctions.length when executeCleanup() ran
  shutdownCalls,     \* number of shutdown() calls made
  ignoredCalls,      \* number of shutdown() calls that hit the early return
  sequencesRun,      \* number of executeCleanup() runs
  startedBy,         \* the signal argument of the call that started the sequence
  exits              \* the arguments of the process.exit calls, in order

shutVars == <<cleanupFunctions, isShuttingDown, shutdownTimeout, invoked,
              namedState, executeState, timer, startLen, shutdownCalls,
              ignoredCalls, sequencesRun, startedBy, exits>>

VARIABLES
  config,       \* this.config: [async, batchSize, defaultStorage]
  logs,         \* the BaseLog objects log() has built, logs[id]
  logQueue,     \* this.logQueue, as a sequence of ids
  batchTimer,   \* this.batchTimer # null
  written,      \* the ids writeLog was called with, in call order
  attempts,     \* attempts[id][sink]: calls of writeToConsole/Database/File
  sinkState,    \* sinkState[id]: promises of writeToDatabase and writeToFile
  failures,     \* <<id, sink>> of the sink writes whose error was caught
  flushes,      \* the batches flushQueue took: [by, ids]
  stops,        \* the stop() calls: the ids queued and the number of logs made
                \* at the call, the batch its flush took (0: none)
  collection,   \* collection[id]: documents of the logs collection with this id
  files,        \* files[type]: the log file of a type: [exists, lines]
  mongoClient,  \* the module variable of db/mongo.ts: "null" or "open"
  closes        \* the closeMongoClient() calls: who called and the state of
                \* its mongoClient.close() ("noop": none was made)

logVars == <<config, logs, logQueue, batchTimer, written, attempts, sinkState,
             failures, flushes, stops, collection, files, mongoClient, closes>>

VARIABLES
  call,         \* a call of one of the service's functions with its arguments
  result        \* <<>> until the call has returned, then <<what it returned>>

callVars == <<call, result>>

vars == <<shutVars, logVars, callVars>>

\* the process is gone once process.exit was called
Running == exits = <<>>

\* state of the namedCleanup promise once the callback was called and the
\* microtasks of that call have run (registerCleanup, lines 28-38: the catch
\* logs and re-throws)
namedCleanup(kind) ==
  CASE kind = "sync_ok" -> "fulfilled"
    [] kind = "registers" -> "fulfilled"
    [] kind = "sync_throw" -> "rejected"
    [] OTHER -> "pending"

\* the promise the map callback of executeCleanup returns for one
\* namedCleanup promise: try { await cleanup() } catch { log }
cleanupPromise(named) ==
  IF named = "rejected" THEN "fulfilled" ELSE named

\* outcome of executeCleanup() for the namedCleanup states of the callbacks
\* it started: await Promise.allSettled(cleanupPromises)
executeCleanupOutcome_all(named) ==
  IF \E i \in DOMAIN named : named[i] = "rejected" THEN "rejected"
  ELSE IF \E i \in DOMAIN named : named[i] = "pending" THEN "pending"
  ELSE "fulfilled"
executeCleanupOutcome(named) ==
  IF \E i \in DOMAIN named : cleanupPromise(named[i]) = "pending"
  THEN "pending" ELSE "fulfilled"

\* the indices executeCleanup calls: Array.prototype.map visits every element
\* present when it is called, whatever an earlier callback did
cleanupsStarted_sequential(fns) ==
  {i \in DOMAIN fns : \A j \in 1..(i - 1) : fns[j] # "sync_throw"}
cleanupsStarted(fns) == DOMAIN fns

\* try { await Promise.race(...); process.exit(0) } catch { process.exit(1) }
raceExitCode(outcome) == IF outcome = "fulfilled" THEN 0 ELSE 1

registerCleanup(kind) ==
  /\ Running
  /\ UNCHANGED <<logVars, callVars>>
  /\ Len(cleanupFunctions) < MaxCleanups
  /\ cleanupFunctions' = Append(cleanupFunctions, kind)
  /\ invoked' = Append(invoked, 0)
  /\ namedState' = Append(namedState, "idle")
  /\ UNCHANGED <<isShuttingDown, shutdownTimeout, executeState, timer,
                 startLen, shutdownCalls, ignoredCalls, sequencesRun, startedBy,
                 exits>>

setShutdownTimeout(timeout) ==
  /\ Running
  /\ UNCHANGED <<logVars, callVars>>
  /\ timeout # shutdownTimeout
  /\ shutdownTimeout' = timeout
  /\ UNCHANGED <<cleanupFunctions, isShuttingDown, invoked, namedState,
                 executeState, timer, startLen, shutdownCalls, ignoredCalls,
                 sequencesRun, startedBy, exits>>

\* the registrations made while the callbacks are called: a "registers"
\* callback calls registerCleanup before it returns, which pushes onto the
\* array map is iterating
registeredDuring(fns) ==
  [j \in 1..Cardinality({i \in cleanupsStarted(fns) : fns[i] = "registers"})
     |-> "sync_ok"]

executeCleanup_live ==
  /\ sequencesRun' = sequencesRun + 1
  /\ startLen' = Len(cleanupFunctions)
  /\ cleanupFunctions' = cleanupFunctions \o registeredDuring(cleanupFunctions)
  /\ invoked' = [i \in DOMAIN cleanupFunctions |->
                   IF i \in cleanupsStarted(cleanupFunctions)
                   THEN invoked[i] + 1 ELSE invoked[i]]
                 \o [j \in DOMAIN registeredDuring(cleanupFunctions) |-> 1]
  /\ namedState' = [i \in DOMAIN cleanupFunctions |->
                      IF i \in cleanupsStarted(cleanupFunctions)
                      THEN namedCleanup(cleanupFunctions[i])
                      ELSE namedState[i]]
                    \o [j \in DOMAIN registeredDuring(cleanupFunctions) |->
                          namedCleanup("sync_ok")]
  /\ executeState' = executeCleanupOutcome(namedState')
\* executeCleanup(), up to its await: every callback is called in turn
executeCleanup ==
  /\ sequencesRun' = sequencesRun + 1
  /\ startLen' = Len(cleanupFunctions)
  /\ cleanupFunctions' = cleanupFunctions \o registeredDuring(cleanupFunctions)
  /\ invoked' = [i \in DOMAIN cleanupFunctions |->
                   IF i \in cleanupsStarted(cleanupFunctions)
                   THEN invoked[i] + 1 ELSE invoked[i]]
                 \o [j \in DOMAIN registeredDuring(cleanupFunctions) |-> 0]
  /\ namedState' = [i \in DOMAIN cleanupFunctions |->
                      IF i \in cleanupsStarted(cleanupFunctions)
                      THEN namedCleanup(cleanupFunctions[i])
                      ELSE namedState[i]]
                    \o [j \in DOMAIN registeredDuring(cleanupFunctions) |->
                          "idle"]
  /\ executeState' = executeCleanupOutcome(namedState')

\* shutdown(signal), up to its await Promise.race
shutdown_unguarded(signal) ==
  /\ Running
  /\ UNCHANGED <<logVars, callVars>>
  /\ shutdownCalls < MaxShutdownCalls
  /\ shutdownCalls' = shutdownCalls + 1
  /\ isShuttingDown' = TRUE
  /\ startedBy' = signal
  /\ executeCleanup
  /\ timer' = Append(timer, shutdownTimeout)
  /\ UNCHANGED <<shutdownTimeout, ignoredCalls, exits>>
shutdown(signal) ==
  /\ Running
  /\ UNCHANGED <<logVars, callVars>>
  /\ shutdownCalls < MaxShutdownCalls
  /\ shutdownCalls' = shutdownCalls + 1
  /\ IF isShuttingDown
     THEN /\ ignoredCalls' = ignoredCalls + 1
          /\ UNCHANGED <<cleanupFunctions, isShuttingDown, shutdownTimeout,
                         invoked, namedState, executeState, timer, startLen,
                         sequencesRun, startedBy, exits>>
     ELSE /\ isShuttingDown' = TRUE
          /\ startedBy' = signal
          /\ executeCleanup
          /\ timer' = Append(timer, shutdownTimeout)
          /\ UNCHANGED <<shutdownTimeout, ignoredCalls, exits>>

\* setupSignalHandlers: process.on(signal, ...) for each of the three signals
SignalReceived == \E s \in signals : shutdown(s)
UncaughtException == shutdown("uncaughtException")
UnhandledRejection == shutdown("unhandledRejection")
\* gracefulShutdownService.shutdown() called by application code
ManualShutdown == shutdown("manual")

\* a pending callback settles in a later macrotask
CleanupSettles ==
  \E i \in DOMAIN cleanupFunctions : \E outcome \in {"fulfilled", "rejected"} :
    /\ Running
    /\ UNCHANGED <<logVars, callVars>>
    /\ cleanupFunctions[i] = "async"
    /\ namedState[i] = "pending"
    /\ namedState' = [namedState EXCEPT ![i] = outcome]
    /\ executeState' = executeCleanupOutcome(namedState')
    /\ UNCHANGED <<cleanupFunctions, isShuttingDown, shutdownTimeout, invoked,
                   timer, startLen, shutdownCalls, ignoredCalls, sequencesRun,
                   startedBy, exits>>

\* microtask drain after executeCleanup() settled: the race is decided by
\* shutdownPromise, shutdown() goes on after its await and calls process.exit
shutdownSettled_resets ==
  /\ Running
  /\ UNCHANGED <<logVars, callVars>>
  /\ executeState \in {"fulfilled", "rejected"}
  /\ exits' = Append(exits, raceExitCode(executeState))
  /\ isShuttingDown' = FALSE
  /\ UNCHANGED <<cleanupFunctions, shutdownTimeout, invoked,
                 namedState, executeState, timer, startLen, shutdownCalls,
                 ignoredCalls, sequencesRun, startedBy>>
shutdownSettled ==
  /\ Running
  /\ UNCHANGED <<logVars, callVars>>
  /\ executeState \in {"fulfilled", "rejected"}
  /\ exits' = Append(exits, raceExitCode(executeState))
  /\ UNCHANGED <<cleanupFunctions, isShuttingDown, shutdownTimeout, invoked,
                 namedState, executeState, timer, startLen, shutdownCalls,
                 ignoredCalls, sequencesRun, startedBy>>

\* the setTimeout of shutdown() fires while executeCleanup() is pending: the
\* race rejects and the catch calls process.exit(1).  A timer is a macrotask,
\* so it never runs between the settling of executeCleanup() and the exit.
shutdownTimedOut_unraced ==
  /\ Running
  /\ UNCHANGED <<logVars, callVars>>
  /\ timer # <<>>
  /\ executeState = "pending"
  /\ UNCHANGED <<shutVars, callVars>>
shutdownTimedOut ==
  /\ Running
  /\ UNCHANGED <<logVars, callVars>>
  /\ timer # <<>>
  /\ executeState = "pending"
  /\ exits' = Append(exits, raceExitCode("rejected"))
  /\ UNCHANGED <<cleanupFunctions, isShuttingDown, shutdownTimeout, invoked,
                 namedState, executeState, timer, startLen, shutdownCalls,
                 ignoredCalls, sequencesRun, startedBy>>

RegisterCleanup == \E kind \in CleanupKinds : registerCleanup(kind)
SetShutdownTimeout == \E t \in TimeoutValues : setShutdownTimeout(t)

ShutNext ==
  \/ RegisterCleanup
  \/ SetShutdownTimeout
  \/ SignalReceived
  \/ UncaughtException
  \/ UnhandledRejection
  \/ ManualShutdown
  \/ CleanupSettles
  \/ shutdownSettled
  \/ shutdownTimedOut

\* ---------------------------------------------------------------- LogService
DefaultBatchSize == 100
\* dbRetentionDays of the constructor's defaults
DefaultDbRetentionDays == 30
\* stored entries of a call of cleanup() or getStats()
MaxDocs == 2

LogLevels == {"debug", "info", "warn", "error", "fatal"}
LogTypes == {"http", "app", "db", "auth", "security", "performance", "system"}
LogStorages == {"console_only", "database_only", "file_only", "console_db",
                "console_file", "all"}

\* the levels and types log() is called with in the model: one level of each
\* policy of the table, one type (one log file)
LevelInputs == {"info", "warn", "error"}
TypeInputs == {"app"}

LogIds == 1..MaxLogs

STORAGE_RULES_errorConsoleOnly ==
  [k \in LogLevels \cup LogTypes |->
     CASE k \in {"debug", "info", "http", "error"} -> "console_only"
       [] k \in {"warn", "app", "db", "performance"} -> "console_db"
       [] OTHER -> "all"]
STORAGE_RULES ==
  [k \in LogLevels \cup LogTypes |->
     CASE k \in {"debug", "info", "http"} -> "console_only"
       [] k \in {"warn", "app", "db", "performance"} -> "console_db"
       [] OTHER -> "all"]

determineStorage_sensitiveTypes(log, defaultStorage) ==
  IF log.type \in {"auth", "security", "system"} THEN STORAGE_RULES[log.type]
  ELSE IF log.level \in DOMAIN STORAGE_RULES THEN STORAGE_RULES[log.level]
  ELSE IF log.type \in DOMAIN STORAGE_RULES THEN STORAGE_RULES[log.type]
  ELSE defaultStorage
determineStorage_typeFirst(log, defaultStorage) ==
  IF log.type \in DOMAIN STORAGE_RULES THEN STORAGE_RULES[log.type]
  ELSE IF log.level \in DOMAIN STORAGE_RULES THEN STORAGE_RULES[log.level]
  ELSE defaultStorage
determineStorage(log, defaultStorage) ==
  IF log.level \in DOMAIN STORAGE_RULES THEN STORAGE_RULES[log.level]
  ELSE IF log.type \in DOMAIN STORAGE_RULES THEN STORAGE_RULES[log.type]
  ELSE defaultStorage

shouldWriteToConsole(storage) ==
  storage \in {"console_only", "console_db", "console_file", "all"}
shouldWriteToDatabase_noConsoleDb(storage) ==
  storage \in {"database_only", "all"}
shouldWriteToDatabase(storage) ==
  storage \in {"database_only", "console_db", "all"}
shouldWriteToFile_consoleDb(storage) ==
  storage \in {"file_only", "console_file", "console_db", "all"}
shouldWriteToFile(storage) ==
  storage \in {"file_only", "console_file", "all"}

\* the promise of writeToDatabase once the insert is over: the catch logs the
\* error and swallows it
writeToDatabase_rethrows(ok) == IF ok THEN "fulfilled" ELSE "rejected"
writeToDatabase(ok) == IF ok THEN "fulfilled" ELSE "fulfilled"

\* the promise of writeToFile once the write is over, same try/catch
writeToFile(ok) == IF ok THEN "fulfilled" ELSE "fulfilled"

Settled(state) == state \in {"none", "fulfilled", "rejected"}

\* await Promise.allSettled(promises) in writeLog and in flushQueue
allSettled(states) ==
  IF \E s \in states : ~Settled(s) THEN "pending" ELSE "fulfilled"

\* promise of writeLog(logs[id], ...)
writeLogPromise(id) ==
  allSettled({sinkState[id].database, sinkState[id].file})

Range(seq) == {seq[i] : i \in DOMAIN seq}

\* promise of the flushQueue() call that took batch k
flushPromise(k) ==
  allSettled({writeLogPromise(id) : id \in Range(flushes[k].ids)})

\* sinkState and attempts of one log after writeLog(log, storage) has run up
\* to its await: writeToConsole has printed, writeToDatabase has called
\* getCollection (which throws without a client) and insertOne, writeToFile
\* awaits file.exists()
writeLogSinks(storage) ==
  [database |-> IF ~shouldWriteToDatabase(storage) THEN "none"
                ELSE IF mongoClient = "open" THEN "inserting"
                ELSE writeToDatabase(FALSE),
   file |-> IF shouldWriteToFile(storage) THEN "exists" ELSE "none",
   content |-> <<>>]

writeLogAttempts(old, storage) ==
  [console |-> old.console + (IF shouldWriteToConsole(storage) THEN 1 ELSE 0),
   database |-> old.database + (IF shouldWriteToDatabase(storage) THEN 1 ELSE 0),
   file |-> old.file + (IF shouldWriteToFile(storage) THEN 1 ELSE 0)]

storageOf(id) == determineStorage(logs'[id], config.defaultStorage)

\* writeLog for every id of batch, in order, each up to its first await
writeLogs_reversed(batch) ==
  /\ written' = written \o [i \in 1..Len(batch) |-> batch[Len(batch) + 1 - i]]
  /\ attempts' = [id \in LogIds |->
                    IF id \in Range(batch)
                    THEN writeLogAttempts(attempts[id], storageOf(id))
                    ELSE attempts[id]]
  /\ sinkState' = [id \in LogIds |->
                     IF id \in Range(batch) THEN writeLogSinks(storageOf(id))
                     ELSE sinkState[id]]
  /\ failures' = failures \cup
       {<<id, "database">> : id \in
          {i \in Range(batch) : /\ shouldWriteToDatabase(storageOf(i))
                                /\ mongoClient # "open"}}
writeLogs(batch) ==
  /\ written' = written \o batch
  /\ attempts' = [id \in LogIds |->
                    IF id \in Range(batch)
                    THEN writeLogAttempts(attempts[id], storageOf(id))
                    ELSE attempts[id]]
  /\ sinkState' = [id \in LogIds |->
                     IF id \in Range(batch) THEN writeLogSinks(storageOf(id))
                     ELSE sinkState[id]]
  /\ failures' = failures \cup
       {<<id, "database">> : id \in
          {i \in Range(batch) : /\ shouldWriteToDatabase(storageOf(i))
                                /\ mongoClient # "open"}}

\* flushQueue() called by `by` when the queue holds q
flushQueue_keeps(q, by) ==
  IF q = <<>>
  THEN /\ logQueue' = q
       /\ UNCHANGED <<written, attempts, sinkState, failures, flushes>>
  ELSE /\ logQueue' = q
       /\ flushes' = Append(flushes, [by |-> by, ids |-> q])
       /\ writeLogs(q)
flushQueue(q, by) ==
  IF q = <<>>
  THEN /\ logQueue' = q
       /\ UNCHANGED <<written, attempts, sinkState, failures, flushes>>
  ELSE /\ logQueue' = <<>>
       /\ flushes' = Append(flushes, [by |-> by, ids |-> q])
       /\ writeLogs(q)

\* const log = {id, timestamp, service, environment, ...logData}: a property
\* of logData replaces the generated property of the same name
buildLog(generated, logData) ==
  [f \in DOMAIN generated \cup DOMAIN logData |->
     IF f \in DOMAIN logData THEN logData[f] ELSE generated[f]]

\* this.logQueue.length >= this.config.batchSize
batchFull_gt(len) == len > config.batchSize
batchFull(len) == len >= config.batchSize

log_closedAfterStop(level, type) ==
  /\ Running
  /\ Len(logs) < MaxLogs
  /\ logs' = Append(logs, buildLog([id |-> Len(logs) + 1],
                                   [level |-> level, type |-> type]))
  /\ IF config.async
     THEN IF stops # <<>>
          THEN UNCHANGED <<logQueue, written, attempts, sinkState, failures,
                           flushes>>
          ELSE IF batchFull(Len(logQueue) + 1)
          THEN flushQueue(Append(logQueue, Len(logs) + 1), "log")
          ELSE /\ logQueue' = Append(logQueue, Len(logs) + 1)
               /\ UNCHANGED <<written, attempts, sinkState, failures, flushes>>
     ELSE /\ writeLogs(<<Len(logs) + 1>>)
          /\ UNCHANGED <<logQueue, flushes>>
  /\ UNCHANGED <<config, batchTimer, stops, collection, files, mongoClient, closes>>
  /\ UNCHANGED <<shutVars, callVars>>
log_neverFlushes(level, type) ==
  /\ Running
  /\ Len(logs) < MaxLogs
  /\ logs' = Append(logs, buildLog([id |-> Len(logs) + 1],
                                   [level |-> level, type |-> type]))
  /\ IF config.async
     THEN /\ logQueue' = Append(logQueue, Len(logs) + 1)
          /\ UNCHANGED <<written, attempts, sinkState, failures, flushes>>
     ELSE /\ writeLogs(<<Len(logs) + 1>>)
          /\ UNCHANGED <<logQueue, flushes>>
  /\ UNCHANGED <<config, batchTimer, stops, collection, files, mongoClient, closes>>
  /\ UNCHANGED <<shutVars, callVars>>
log_alwaysQueues(level, type) ==
  /\ Running
  /\ Len(logs) < MaxLogs
  /\ logs' = Append(logs, buildLog([id |-> Len(logs) + 1],
                                   [level |-> level, type |-> type]))
  /\ IF TRUE
     THEN IF batchFull(Len(logQueue) + 1)
          THEN flushQueue(Append(logQueue, Len(logs) + 1), "log")
          ELSE /\ logQueue' = Append(logQueue, Len(logs) + 1)
               /\ UNCHANGED <<written, attempts, sinkState, failures, flushes>>
     ELSE /\ writeLogs(<<Len(logs) + 1>>)
          /\ UNCHANGED <<logQueue, flushes>>
  /\ UNCHANGED <<config, batchTimer, stops, collection, files, mongoClient, closes>>
  /\ UNCHANGED <<shutVars, callVars>>
log(level, type) ==
  /\ Running
  /\ Len(logs) < MaxLogs
  /\ logs' = Append(logs, buildLog([id |-> Len(logs) + 1],
                                   [level |-> level, type |-> type]))
  /\ IF config.async
     THEN IF batchFull(Len(logQueue) + 1)
          THEN flushQueue(Append(logQueue, Len(logs) + 1), "log")
          ELSE /\ logQueue' = Append(logQueue, Len(logs) + 1)
               /\ UNCHANGED <<written, attempts, sinkState, failures, flushes>>
     ELSE /\ writeLogs(<<Len(logs) + 1>>)
          /\ UNCHANGED <<logQueue, flushes>>
  /\ UNCHANGED <<config, batchTimer, stops, collection, files, mongoClient, closes>>
  /\ UNCHANGED <<shutVars, callVars>>

\* the setInterval callback of startBatchTimer
batchTimerFires_whenFull ==
  /\ Running
  /\ batchTimer
  /\ UNCHANGED logs
  /\ IF batchFull(Len(logQueue))
     THEN flushQueue(logQueue, "timer")
     ELSE UNCHANGED <<logQueue, written, attempts, sinkState, failures,
                      flushes>>
  /\ UNCHANGED <<config, batchTimer, stops, collection, files, mongoClient, closes>>
  /\ UNCHANGED <<shutVars, callVars>>
batchTimerFires ==
  /\ Running
  /\ batchTimer
  /\ UNCHANGED logs
  /\ flushQueue(logQueue, "timer")
  /\ UNCHANGED <<config, batchTimer, stops, collection, files, mongoClient, closes>>
  /\ UNCHANGED <<shutVars, callVars>>

\* stop() has one caller, the cleanup the constructor registers, and a
\* cleanup is invoked at most once
stop_noflush ==
  /\ Running
  /\ stops = <<>>
  /\ batchTimer' = FALSE
  /\ stops' = Append(stops, [queued |-> Range(logQueue), made |-> Len(logs),
                             flush |-> 0])
  /\ UNCHANGED <<logs, logQueue, written, attempts, sinkState, failures,
                 flushes>>
  /\ UNCHANGED <<config, collection, files, mongoClient, closes>>
  /\ UNCHANGED <<shutVars, callVars>>
stop ==
  /\ Running
  /\ stops = <<>>
  /\ batchTimer' = FALSE
  /\ UNCHANGED logs
  /\ flushQueue(logQueue, "stop")
  /\ stops' = Append(stops, [queued |-> Range(logQueue), made |-> Len(logs),
                             flush |-> IF logQueue = <<>> THEN 0
                                       ELSE Len(flushes) + 1])
  /\ UNCHANGED <<config, collection, files, mongoClient, closes>>
  /\ UNCHANGED <<shutVars, callVars>>

\* collection.insertOne(log) settles
insertOneSettles ==
  \E id \in LogIds : \E ok \in BOOLEAN :
    /\ Running
    /\ sinkState[id].database = "inserting"
    /\ sinkState' = [sinkState EXCEPT ![id].database = writeToDatabase(ok)]
    /\ collection' = IF ok THEN [collection EXCEPT ![id] = @ + 1]
                      ELSE collection
    /\ failures' = IF ok THEN failures ELSE failures \cup {<<id, "database">>}
    /\ UNCHANGED <<config, logs, logQueue, batchTimer, written, attempts,
                   flushes, stops, files, mongoClient, closes>>
    /\ UNCHANGED <<shutVars, callVars>>

\* await file.exists() of writeToFile returns
fileExistsReturns ==
  \E id \in LogIds :
    /\ Running
    /\ sinkState[id].file = "exists"
    /\ sinkState' = [sinkState EXCEPT ![id].file =
                       IF files[logs[id].type].exists THEN "text" ELSE "write"]
    /\ UNCHANGED <<config, logs, logQueue, batchTimer, written, attempts,
                   failures, flushes, stops, collection, files, mongoClient, closes>>
    /\ UNCHANGED <<shutVars, callVars>>

\* await file.text() returns the content the file has now
fileTextReturns ==
  \E id \in LogIds :
    /\ Running
    /\ sinkState[id].file = "text"
    /\ sinkState' = [sinkState EXCEPT ![id].file = "write",
                                      ![id].content = files[logs[id].type].lines]
    /\ UNCHANGED <<config, logs, logQueue, batchTimer, written, attempts,
                   failures, flushes, stops, collection, files, mongoClient, closes>>
    /\ UNCHANGED <<shutVars, callVars>>

\* await Bun.write(filepath, existingContent + logLine) is done; for a new
\* file existingContent is empty
fileWriteDone_appends ==
  \E id \in LogIds :
    /\ Running
    /\ sinkState[id].file = "write"
    /\ files' = [files EXCEPT ![logs[id].type] =
                   [exists |-> TRUE,
                    lines |-> Append(files[logs[id].type].lines, id)]]
    /\ sinkState' = [sinkState EXCEPT ![id].file = writeToFile(TRUE),
                                      ![id].content = <<>>]
    /\ UNCHANGED <<config, logs, logQueue, batchTimer, written, attempts,
                   failures, flushes, stops, collection, mongoClient, closes>>
    /\ UNCHANGED <<shutVars, callVars>>
fileWriteDone ==
  \E id \in LogIds :
    /\ Running
    /\ sinkState[id].file = "write"
    /\ files' = [files EXCEPT ![logs[id].type] =
                   [exists |-> TRUE,
                    lines |-> Append(sinkState[id].content, id)]]
    /\ sinkState' = [sinkState EXCEPT ![id].file = writeToFile(TRUE),
                                      ![id].content = <<>>]
    /\ UNCHANGED <<config, logs, logQueue, batchTimer, written, attempts,
                   failures, flushes, stops, collection, mongoClient, closes>>
    /\ UNCHANGED <<shutVars, callVars>>

\* one of the awaits of writeToFile rejects: caught and logged
fileWriteFails ==
  \E id \in LogIds :
    /\ Running
    /\ sinkState[id].file \in {"exists", "text", "write"}
    /\ sinkState' = [sinkState EXCEPT ![id].file = writeToFile(FALSE),
                                      ![id].content = <<>>]
    /\ failures' = failures \cup {<<id, "file">>}
    /\ UNCHANGED <<config, logs, logQueue, batchTimer, written, attempts,
                   flushes, stops, collection, files, mongoClient, closes>>
    /\ UNCHANGED <<shutVars, callVars>>

\* initializeMongoClient() as startServer calls it: on success the client is
\* kept and closeMongoClient is registered; on failure the error is re-thrown
\* and the catch of startServer calls process.exit(1)
initializeMongoClient ==
  \E ok \in BOOLEAN :
    /\ Running
    /\ mongoClient = "null"
    /\ IF ok
       THEN /\ mongoClient' = "open"
            /\ cleanupFunctions' = Append(cleanupFunctions, "closeMongoClient")
            /\ invoked' = Append(invoked, 0)
            /\ namedState' = Append(namedState, "idle")
            /\ UNCHANGED exits
       ELSE /\ exits' = Append(exits, 1)
            /\ UNCHANGED <<mongoClient, cleanupFunctions, invoked, namedState>>
    /\ UNCHANGED closes
    /\ UNCHANGED <<isShuttingDown, shutdownTimeout, executeState, timer,
                   startLen, shutdownCalls, ignoredCalls, sequencesRun,
                   startedBy>>
    /\ UNCHANGED <<config, logs, logQueue, batchTimer, written, attempts,
                   sinkState, failures, flushes, stops, collection, files>>
    /\ UNCHANGED callVars

Log == \E level \in LevelInputs : \E type \in TypeInputs : log(level, type)

\* the state new LogService(cfg) leaves: the timer runs in async mode only
LogInit(cfg) ==
  /\ config = cfg
  /\ logs = <<>>
  /\ logQueue = <<>>
  /\ batchTimer = cfg.async
  /\ written = <<>>
  /\ attempts = [id \in LogIds |-> [console |-> 0, database |-> 0, file |-> 0]]
  /\ sinkState = [id \in LogIds |->
                    [database |-> "none", file |-> "none", content |-> <<>>]]
  /\ failures = {}
  /\ flushes = <<>>
  /\ stops = <<>>
  /\ collection = [id \in LogIds |-> 0]
  /\ files = [t \in LogTypes |-> [exists |-> FALSE, lines |-> <<>>]]
  /\ mongoClient = "null"
  /\ closes = <<>>

\* export const logService = new LogService({async: true, defaultStorage: ...})
logServiceConfig ==
  [async |-> TRUE, batchSize |-> DefaultBatchSize,
   defaultStorage |-> "console_only"]

\* configurations a LogService is constructed with in the model
LogConfigs ==
  [async : {TRUE}, batchSize : 1..MaxBatchSize, defaultStorage : {"console_db"}]
    \cup [async : {FALSE}, batchSize : {DefaultBatchSize},
          defaultStorage : {"console_db"}]

LogNext ==
  \/ Log
  \/ batchTimerFires
  \/ stop
  \/ insertOneSettles
  \/ fileExistsReturns
  \/ fileTextReturns
  \/ fileWriteDone
  \/ fileWriteFails
  \/ initializeMongoClient

\* ---------------------------------------------------------- specifications
\* the coordinator next to the module's logService
ShutdownInit ==
  /\ cleanupFunctions = <<>>
  /\ isShuttingDown = FALSE
  /\ shutdownTimeout = DefaultShutdownTimeout
  /\ invoked = <<>>
  /\ namedState = <<>>
  /\ executeState = "none"
  /\ timer = <<>>
  /\ startLen = 0
  /\ shutdownCalls = 0
  /\ ignoredCalls = 0
  /\ sequencesRun = 0
  /\ startedBy = "none"
  /\ exits = <<>>
  /\ LogInit(logServiceConfig)
  /\ call = [op |-> "none"]
  /\ result = <<>>

ShutdownSpec == ShutdownInit /\ [][ShutNext]_vars
\* the event loop runs a due timer and drains the microtask queue
ShutdownFairSpec ==
  ShutdownSpec /\ WF_vars(shutdownTimedOut) /\ WF_vars(shutdownSettled)

\* a LogService of any of the configurations, the coordinator untouched
LogServiceInit ==
  /\ cleanupFunctions = <<>>
  /\ isShuttingDown = FALSE
  /\ shutdownTimeout = DefaultShutdownTimeout
  /\ invoked = <<>>
  /\ namedState = <<>>
  /\ executeState = "none"
  /\ timer = <<>>
  /\ startLen = 0
  /\ shutdownCalls = 0
  /\ ignoredCalls = 0
  /\ sequencesRun = 0
  /\ startedBy = "none"
  /\ exits = <<>>
  /\ \E cfg \in LogConfigs : LogInit(cfg)
  /\ call = [op |-> "none"]
  /\ result = <<>>

LogSpec == LogServiceInit /\ [][LogNext]_vars
\* setInterval keeps calling the callback until clearInterval
LogFairSpec == LogSpec /\ WF_vars(batchTimerFires)

\* ---------------------------------------------------------------------
\* Single calls of the service's functions on given arguments
\* ---------------------------------------------------------------------

\* a level and a type outside the schema's enumerations, which a caller
\* not checked by the compiler can pass: they have no entry in STORAGE_RULES
LevelArgs == LogLevels \cup {"trace"}
TypeArgs == LogTypes \cup {"custom"}

determineStorageCalls ==
  {[op |-> "determineStorage", log |-> [level |-> l, type |-> t],
    defaultStorage |-> d] : l \in LevelArgs, t \in TypeArgs, d \in LogStorages}

writeLogCalls == {[op |-> "writeLog", storage |-> s] : s \in LogStorages}

\* what uuidv7(), new Date(), the service name and NODE_ENV give in a call
generated ==
  [id |-> "uuidv7()", timestamp |-> "new Date()", service |-> "jigu-server",
   environment |-> "development"]

\* the logData of a caller: message, level and type, and any of the other
\* BaseLog fields the parameter type leaves optional
callerData ==
  [message |-> "x", level |-> "warn", type |-> "app", id |-> "caller id",
   timestamp |-> "caller date", service |-> "caller service",
   environment |-> "caller environment"]

logCalls ==
  {[op |-> "log", logData |-> [f \in {"message", "level", "type"} \cup fs |->
                                 callerData[f]]] :
     fs \in SUBSET {"id", "timestamp", "service", "environment"}}

\* the database call of the operation succeeds or rejects
DbOutcomes == {"ok", "fails"}

\* days, as the stored timestamps and the clock of cleanup() are compared
Days == 0..2
NowValues == {DefaultDbRetentionDays + 1, DefaultDbRetentionDays + 2}

StoredDays == UNION {[1..k -> Days] : k \in 0..MaxDocs}

cleanupCalls ==
  {[op |-> "cleanup", docs |-> d, now |-> n,
    dbRetentionDays |-> DefaultDbRetentionDays, db |-> o] :
     d \in StoredDays, n \in NowValues, o \in DbOutcomes}

\* the stored entries getStats aggregates and its optional arguments
\* (<<>>: undefined)
StatLevels == {"info", "error", "fatal"}
StoredLogs ==
  UNION {[1..k -> [level : StatLevels, timestamp : Days]] : k \in 0..MaxDocs}
TimeArgs == {<<>>, <<1>>}

getStatsCalls ==
  {[op |-> "getStats", docs |-> d, startTime |-> a, endTime |-> b, db |-> o] :
     d \in StoredLogs, a \in TimeArgs, b \in TimeArgs, o \in DbOutcomes}

\* this.determineStorage(log) under a config with the given defaultStorage
determineStorageReturns ==
  /\ call.op = "determineStorage"
  /\ result = <<>>
  /\ result' = <<determineStorage(call.log, call.defaultStorage)>>
  /\ UNCHANGED <<call, shutVars, logVars>>

\* writeLog(log, storage) up to its await: the sink writes it has called
writeLogReturns ==
  /\ call.op = "writeLog"
  /\ result = <<>>
  /\ result' = <<writeLogAttempts([console |-> 0, database |-> 0, file |-> 0],
                                  call.storage)>>
  /\ UNCHANGED <<call, shutVars, logVars>>

\* the object log() builds from logData
logReturns ==
  /\ call.op = "log"
  /\ result = <<>>
  /\ result' = <<buildLog(generated, call.logData)>>
  /\ UNCHANGED <<call, shutVars, logVars>>

\* cutoffDate.setDate(cutoffDate.getDate() - this.config.dbRetentionDays)
cutoffDate(now, dbRetentionDays) == now - dbRetentionDays

\* collection.deleteMany({timestamp: {$lt: cutoffDate}}): the count of the
\* documents deleted and the documents left
deleteMany_lte(docs, cutoff) ==
  [deletedCount |-> Cardinality({i \in DOMAIN docs : docs[i] <= cutoff}),
   docs |-> [i \in {j \in DOMAIN docs : ~(docs[j] <= cutoff)} |-> docs[i]]]
deleteMany(docs, cutoff) ==
  [deletedCount |-> Cardinality({i \in DOMAIN docs : docs[i] < cutoff}),
   docs |-> [i \in {j \in DOMAIN docs : ~(docs[j] < cutoff)} |-> docs[i]]]

\* the error a rejected driver call rejects with
dbError(name) == [error |-> "MongoError", from |-> name]

\* catch (error) { consola.error(..., error); throw error }
rethrown_wrapped(error) == [error |-> "Error", from |-> "LogService"]
rethrown(error) == error

\* the driver calls one run of the try block makes: none is repeated
dbCalls(names) == names

\* cleanup(): the error of a failed database call is logged and re-thrown
cleanupReturns ==
  /\ call.op = "cleanup"
  /\ result = <<>>
  /\ result' =
       IF call.db = "ok"
       THEN LET deleted == deleteMany(call.docs,
                                      cutoffDate(call.now, call.dbRetentionDays))
            IN <<[rejected |-> FALSE,
                  value |-> [deletedCount |-> deleted.deletedCount],
                  docs |-> deleted.docs,
                  dbCalls |-> dbCalls(<<"deleteMany">>)]>>
       ELSE <<[rejected |-> TRUE, value |-> rethrown(dbError("deleteMany")),
               docs |-> call.docs, dbCalls |-> dbCalls(<<"deleteMany">>)]>>
  /\ UNCHANGED <<call, shutVars, logVars>>

\* the $match stage: $gte startTime and $lte endTime, each when given
timeFilter(doc, startTime, endTime) ==
  /\ startTime # <<>> => doc.timestamp >= startTime[1]
  /\ endTime # <<>> => doc.timestamp <= endTime[1]

\* [{$count: "count"}] gives no document for no input
countStage(matched) ==
  IF matched = {} THEN <<>> ELSE <<[count |-> Cardinality(matched)]>>

\* collection.aggregate(pipeline).toArray(): $facet gives one document
aggregate(docs, startTime, endTime) ==
  LET matched == {i \in DOMAIN docs : timeFilter(docs[i], startTime, endTime)}
  IN <<[total |-> countStage(matched),
        errorCount |-> countStage({i \in matched :
                                     docs[i].level \in {"error", "fatal"}})]>>

\* stats.total[0]?.count || 0
countOrZero(facet) == IF facet = <<>> THEN 0 ELSE facet[1].count

\* total > 0 ? (errorCount / total) * 100 : 0, as the fraction num / den; a
\* division by zero is the fraction with den = 0
errorRate_unguarded(errorCount, total) ==
  [num |-> errorCount * 100, den |-> total]
errorRate(errorCount, total) ==
  IF total > 0 THEN [num |-> errorCount * 100, den |-> total]
  ELSE [num |-> 0, den |-> 1]

\* getStats(startTime, endTime): total and errorRate of what it returns
getStats(docs, startTime, endTime) ==
  LET aggregated == aggregate(docs, startTime, endTime)
  IN IF aggregated = <<>>
     THEN [rejected |-> TRUE,
           value |-> rethrown([error |-> "Error", from |-> "getStats"]),
           dbCalls |-> dbCalls(<<"aggregate">>)]
     ELSE LET total == countOrZero(aggregated[1].total)
              errorCount == countOrZero(aggregated[1].errorCount)
          IN [rejected |-> FALSE,
              value |-> [total |-> total,
                         errorRate |-> errorRate(errorCount, total)],
              dbCalls |-> dbCalls(<<"aggregate">>)]

getStatsReturns ==
  /\ call.op = "getStats"
  /\ result = <<>>
  /\ result' = IF call.db = "ok"
               THEN <<getStats(call.docs, call.startTime, call.endTime)>>
               ELSE <<[rejected |-> TRUE,
                       value |-> rethrown(dbError("aggregate")),
                       dbCalls |-> dbCalls(<<"aggregate">>)]>>
  /\ UNCHANGED <<call, shutVars, logVars>>

\* query(queryParams) with a time range and levels, on page 1 with the
\* default limit (50, more than the stored entries): find and countDocuments
\* run at once under Promise.all, which rejects with the error of the call
\* that rejects first
queryFilter(doc, queryParams) ==
  /\ timeFilter(doc, queryParams.startTime, queryParams.endTime)
  /\ queryParams.levels # <<>> => doc.level \in Range(queryParams.levels)

\* Promise.all([find, countDocuments]): "ok" or the driver call whose
\* rejection it takes
promiseAll(find, countDocuments, first) ==
  IF find = "ok" /\ countDocuments = "ok" THEN "ok"
  ELSE IF find = "ok" THEN "countDocuments"
  ELSE IF countDocuments = "ok" THEN "find"
  ELSE first

query(docs, queryParams, find, countDocuments, first) ==
  LET matched == {i \in DOMAIN docs : queryFilter(docs[i], queryParams)}
      settled == promiseAll(find, countDocuments, first)
  IN IF settled = "ok"
     THEN [rejected |-> FALSE,
           value |-> [logs |-> matched, total |-> Cardinality(matched)],
           dbCalls |-> dbCalls(<<"find", "countDocuments">>)]
     ELSE [rejected |-> TRUE, value |-> rethrown(dbError(settled)),
           dbCalls |-> dbCalls(<<"find", "countDocuments">>)]

queryReturns ==
  /\ call.op = "query"
  /\ result = <<>>
  /\ result' = <<query(call.docs, call.queryParams, call.find,
                       call.countDocuments, call.first)>>
  /\ UNCHANGED <<call, shutVars, logVars>>

queryCalls ==
  {[op |-> "query", docs |-> d,
    queryParams |-> [startTime |-> <<>>, endTime |-> b, levels |-> l],
    find |-> f, countDocuments |-> c, first |-> x] :
     d \in StoredLogs, b \in TimeArgs, l \in {<<>>, <<"error", "fatal">>},
     f \in DbOutcomes, c \in DbOutcomes, x \in {"find", "countDocuments"}}

\* ---- the scripts routes, ScriptsService and ScriptsDAL ----

\* a request body the script schemas accept or reject
Bodies == {"valid", "malformed"}

\* what a call gives: the value it returns or the error it throws
returns(value) == [threw |-> FALSE, value |-> value]
throws(error) == [threw |-> TRUE, value |-> error]

\* CreateScriptSchema.parse(input) / UpdateScriptSchema.parse(input)
schemaParse(body) ==
  IF body = "malformed"
  THEN throws([name |-> "ZodError", message |-> <<"issues">>])
  ELSE returns(body)

\* scriptsDAL.createScript / updateScript: validate, then the driver call;
\* done is the id inserted, or modifiedCount > 0
dalWrite(body, done, db) ==
  IF schemaParse(body).threw THEN schemaParse(body)
  ELSE IF db = "fails"
  THEN throws([name |-> "MongoError", message |-> <<"driver">>])
  ELSE returns(done)

\* BaseService.handleError: every Error becomes a new TypeError
handleError(error, context) ==
  [name |-> "TypeError", message |-> <<context>> \o error.message]

\* ScriptsService.createScript / updateScript
serviceWrite(body, done, db, context) ==
  IF dalWrite(body, done, db).threw
  THEN throws(handleError(dalWrite(body, done, db).value, context))
  ELSE dalWrite(body, done, db)

\* R.ok and R.fail: the HTTP status, the service code and the message
R_ok == [status |-> "OK", code |-> "OK", message |-> <<"Ok">>]
R_fail(code, message) ==
  [status |-> "BAD_REQUEST", code |-> code, message |-> message]

\* the catch of the post and put handlers
routeCatch(error, context) ==
  IF error.name = "ZodError"
  THEN R_fail("BAD_REQUEST", <<"Validation error">> \o error.message)
  ELSE R_fail("INTERNAL_SERVER_ERROR", <<context>>)

\* scripts.put("/:id")
scriptsPut(body, modified, db) ==
  LET success == serviceWrite(body, modified, db, "Failed to update script")
  IN IF success.threw
     THEN routeCatch(success.value, "Failed to update script")
     ELSE IF ~success.value
     THEN R_fail("NOT_FOUND", <<"Script not found or update failed">>)
     ELSE R_ok

\* scripts.post("/", zValidator("json", CreateScriptSchema), ...): the
\* validator answers a rejected body itself with status 400 and the parse
\* result, and the handler does not run
scriptsPost(body, db) ==
  LET scriptId == serviceWrite(body, TRUE, db, "Failed to create script")
  IN IF schemaParse(body).threw
     THEN [status |-> "BAD_REQUEST", code |-> "none",
           message |-> schemaParse(body).value.message]
     ELSE IF scriptId.threw
     THEN routeCatch(scriptId.value, "Failed to create script")
     ELSE R_ok

scriptsCalls ==
  {[op |-> "scripts.put", body |-> b, modified |-> m, db |-> o] :
     b \in Bodies, m \in BOOLEAN, o \in DbOutcomes}
    \cup {[op |-> "scripts.post", body |-> b, db |-> o] :
            b \in Bodies, o \in DbOutcomes}

scriptsPutReturns ==
  /\ call.op = "scripts.put"
  /\ result = <<>>
  /\ result' = <<scriptsPut(call.body, call.modified, call.db)>>
  /\ UNCHANGED <<call, shutVars, logVars>>

scriptsPostReturns ==
  /\ call.op = "scripts.post"
  /\ result = <<>>
  /\ result' = <<scriptsPost(call.body, call.db)>>
  /\ UNCHANGED <<call, shutVars, logVars>>

\* the scripts scriptsDAL.findAll() returns, in the order of the cursor
\* (find(filter).toArray(), no sort): updatedAt is <<date>>, or <<>> for a
\* document without the field; dates count from the epoch, 0
StoredScripts ==
  UNION {[1..k -> [updatedAt : {<<>>} \cup {<<d>> : d \in 1..2}]] :
           k \in 0..MaxDocs}

\* allScripts.reduce((acc, script) =>
\*   script.updatedAt ? new Date(script.updatedAt) : acc, new Date(0))
RECURSIVE reduceLastUpdated(_, _)
reduceLastUpdated(allScripts, acc) ==
  IF allScripts = <<>> THEN acc
  ELSE reduceLastUpdated(Tail(allScripts),
                         IF Head(allScripts).updatedAt # <<>>
                         THEN Head(allScripts).updatedAt[1] ELSE acc)

\* ScriptsService.getScriptStats
getScriptStats(allScripts, db) ==
  IF db = "fails"
  THEN throws(handleError([name |-> "MongoError", message |-> <<"driver">>],
                          "Failed to fetch script statistics"))
  ELSE returns([totalScripts |-> Len(allScripts),
                theLastUpdatedScriptDate |-> reduceLastUpdated(allScripts, 0)])

getScriptStatsCalls ==
  {[op |-> "getScriptStats", scripts |-> a, db |-> o] :
     a \in StoredScripts, o \in DbOutcomes}

getScriptStatsReturns ==
  /\ call.op = "getScriptStats"
  /\ result = <<>>
  /\ result' = <<getScriptStats(call.scripts, call.db)>>
  /\ UNCHANGED <<call, shutVars, logVars>>

\* -------------------------------------------------- the logging middleware
DefaultSlowRequestThreshold == 1000

\* a path is the sequence of the pieces that matter to startsWith:
\* "/healthz" is <<"/health", "z">>
Paths ==
  {<<"/health">>, <<"/health", "z">>, <<"/ping">>, <<"/metrics">>,
   <<"/scripts">>}

\* defaultOptions.excludePaths and the list prodLogger is created with
defaultExcludePaths == {<<"/health">>, <<"/ping">>}
prodExcludePaths == {<<"/health">>, <<"/ping">>, <<"/metrics">>}

\* createLogger(options): opts = {...defaultOptions, ...options}
LoggerOptions ==
  [excludePaths : {defaultExcludePaths, prodExcludePaths},
   slowRequestThreshold : {0, 500, DefaultSlowRequestThreshold},
   enableDbLogging : BOOLEAN]

\* what await next() does: the response has a status, or next() throws
Handlers == [threw : {FALSE}, status : {200, 404, 500}]
              \cup [threw : {TRUE}, status : {0}]

\* Date.now() - startTime
Durations == {500, 501, 1000, 1001}

startsWith(path, pattern) ==
  Len(pattern) <= Len(path) /\ SubSeq(path, 1, Len(pattern)) = pattern

\* excludePaths.some(pattern => path === pattern || path.startsWith(pattern))
shouldExcludePath(path, excludePaths) ==
  \E pattern \in excludePaths : path = pattern \/ startsWith(path, pattern)

\* duration > (opts.slowRequestThreshold || 1000)
isSlowRequest(duration, opts) ==
  duration > (IF opts.slowRequestThreshold # 0 THEN opts.slowRequestThreshold
              ELSE DefaultSlowRequestThreshold)

\* error || status >= 500 ? error : status >= 400 ? warn
\*   : isSlowRequest ? warn : info
logLevel_slowIsInfo(error, status, slow) ==
  IF error \/ status >= 500 THEN "error"
  ELSE IF status >= 400 THEN "warn"
  ELSE "info"
logLevel(error, status, slow) ==
  IF error \/ status >= 500 THEN "error"
  ELSE IF status >= 400 THEN "warn"
  ELSE IF slow THEN "warn"
  ELSE "info"

\* the middleware createLogger returns, for one request: the logService.log
\* calls it makes, in order, and whether it throws
logger(path, opts, next, duration) ==
  IF shouldExcludePath(path, opts.excludePaths)
  THEN [logCalls |-> <<>>, threw |-> next.threw]
  ELSE LET status == IF next.threw THEN 500 ELSE next.status
           started == [message |-> "Request started", level |-> "info",
                       type |-> "http"]
           completed ==
             [message |-> IF next.threw THEN "Request failed" ELSE "status",
              level |-> logLevel(next.threw, status,
                                 isSlowRequest(duration, opts)),
              type |-> "http"]
       IN  [logCalls |-> IF opts.enableDbLogging THEN <<started, completed>>
                         ELSE <<>>,
            threw |-> next.threw]

loggerCalls ==
  {[op |-> "logger", path |-> p, opts |-> o, next |-> h, duration |-> d] :
     p \in Paths, o \in LoggerOptions, h \in Handlers, d \in Durations}

loggerReturns ==
  /\ call.op = "logger"
  /\ result = <<>>
  /\ result' = <<logger(call.path, call.opts, call.next, call.duration)>>
  /\ UNCHANGED <<call, shutVars, logVars>>

Calls ==
  getScriptStatsCalls \cup loggerCalls \cup scriptsCalls \cup determineStorageCalls \cup writeLogCalls \cup logCalls \cup cleanupCalls
    \cup getStatsCalls \cup queryCalls

CallNext ==
  \/ determineStorageReturns
  \/ writeLogReturns
  \/ logReturns
  \/ cleanupReturns
  \/ getStatsReturns
  \/ queryReturns
  \/ scriptsPutReturns
  \/ scriptsPostReturns
  \/ loggerReturns
  \/ getScriptStatsReturns

CallInit ==
  /\ cleanupFunctions = <<>>
  /\ isShuttingDown = FALSE
  /\ shutdownTimeout = DefaultShutdownTimeout
  /\ invoked = <<>>
  /\ namedState = <<>>
  /\ executeState = "none"
  /\ timer = <<>>
  /\ startLen = 0
  /\ shutdownCalls = 0
  /\ ignoredCalls = 0
  /\ sequencesRun = 0
  /\ startedBy = "none"
  /\ exits = <<>>
  /\ LogInit(logServiceConfig)
  /\ call \in Calls
  /\ result = <<>>

CallSpec == CallInit /\ [][CallNext]_vars

\* ---------------------------------------------------------------------
\* The server once startServer() has resolved: the log service, the
\* database client and the HTTP server each have a cleanup registered
\* ---------------------------------------------------------------------

\* the stop() call k has returned: its flushQueue() took nothing or is settled
StopDone(k) ==
  /\ k \in DOMAIN stops
  /\ stops[k].flush # 0 => flushPromise(stops[k].flush) = "fulfilled"

\* the callbacks, in the order of their registerCleanup calls: the logService
\* singleton is constructed on import, startServer then awaits
\* initializeMongoClient and registers the stop of the HTTP server
serverCleanups == <<"stop", "closeMongoClient", "server.stop">>

\* getMongo(), and getDb() and getCollection() which call it
getMongo ==
  IF mongoClient = "null" THEN throws("MongoDB client not initialized")
  ELSE returns(mongoClient)

\* closeMongoClient(), up to its await: close() is called on a client
closeMongoClient(by) ==
  closes' = Append(closes, [by |-> by,
                            state |-> IF mongoClient = "null" THEN "noop"
                                      ELSE "pending"])

\* the promise of the closeMongoClient() call k
closePromise(k) ==
  IF closes[k].state = "noop" THEN "fulfilled" ELSE closes[k].state

\* the promise of the registered callback i of a running shutdown
serverCleanup(i) ==
  CASE cleanupFunctions[i] = "stop" ->
         IF StopDone(1) THEN "fulfilled" ELSE "pending"
    [] cleanupFunctions[i] = "closeMongoClient" ->
         IF \E k \in DOMAIN closes :
              closes[k].by = "cleanup" /\ closePromise(k) = "pending"
         THEN "pending"
         ELSE IF \E k \in DOMAIN closes :
                   closes[k].by = "cleanup" /\ closePromise(k) = "rejected"
         THEN "rejected" ELSE "fulfilled"
    [] OTHER -> "fulfilled"

\* executeCleanup() of the running shutdown
serverExecuteCleanup ==
  executeCleanupOutcome([i \in 1..startLen |-> serverCleanup(i)])

\* shutdown(signal) with the server's callbacks, up to its await: stop()
\* clears the timer and flushes, closeMongoClient() calls close(), the
\* HTTP server's callback returns
serverShutdown(signal) ==
  /\ Running
  /\ ignoredCalls = 0
  /\ shutdownCalls' = shutdownCalls + 1
  /\ IF isShuttingDown
     THEN /\ ignoredCalls' = ignoredCalls + 1
          /\ UNCHANGED <<cleanupFunctions, isShuttingDown, shutdownTimeout,
                         invoked, namedState, executeState, timer, startLen,
                         sequencesRun, startedBy, exits>>
          /\ UNCHANGED logVars
     ELSE /\ isShuttingDown' = TRUE
          /\ startedBy' = signal
          /\ sequencesRun' = sequencesRun + 1
          /\ startLen' = Len(cleanupFunctions)
          /\ invoked' = [i \in DOMAIN cleanupFunctions |->
                           IF i \in cleanupsStarted(cleanupFunctions)
                           THEN invoked[i] + 1 ELSE invoked[i]]
          /\ namedState' = [i \in DOMAIN cleanupFunctions |-> "pending"]
          /\ executeState' = "pending"
          /\ timer' = Append(timer, shutdownTimeout)
          /\ UNCHANGED <<config, logs, collection, files, mongoClient>>
          /\ batchTimer' = FALSE
          /\ flushQueue(logQueue, "stop")
          /\ stops' = Append(stops,
                             [queued |-> Range(logQueue), made |-> Len(logs),
                              flush |-> IF logQueue = <<>> THEN 0
                                        ELSE Len(flushes) + 1])
          /\ closeMongoClient("cleanup")
          /\ UNCHANGED <<cleanupFunctions, shutdownTimeout, ignoredCalls,
                         exits>>
  /\ UNCHANGED callVars

\* closeMongoClient() called by other code than the shutdown, once
closeMongoClientCalled ==
  /\ Running
  /\ \A k \in DOMAIN closes : closes[k].by # "call"
  /\ closeMongoClient("call")
  /\ UNCHANGED <<config, logs, logQueue, batchTimer, written, attempts,
                 sinkState, failures, flushes, stops, collection, files,
                 mongoClient>>
  /\ UNCHANGED <<shutVars, callVars>>

\* await mongoClient.close() is over: mongoClient = null after a close
\* that succeeded, the error re-thrown after one that failed
closeSettles_keepsClient ==
  \E k \in DOMAIN closes : \E ok \in BOOLEAN :
    /\ Running
    /\ closes[k].state = "pending"
    /\ closes' = [closes EXCEPT ![k].state =
                    IF ok THEN "fulfilled" ELSE "rejected"]
    /\ UNCHANGED <<config, logs, logQueue, batchTimer, written, attempts,
                   sinkState, failures, flushes, stops, collection, files,
                   mongoClient>>
    /\ UNCHANGED <<shutVars, callVars>>
closeSettles ==
  \E k \in DOMAIN closes : \E ok \in BOOLEAN :
    /\ Running
    /\ closes[k].state = "pending"
    /\ closes' = [closes EXCEPT ![k].state =
                    IF ok THEN "fulfilled" ELSE "rejected"]
    /\ mongoClient' = IF ok THEN "null" ELSE mongoClient
    /\ UNCHANGED <<config, logs, logQueue, batchTimer, written, attempts,
                   sinkState, failures, flushes, stops, collection, files>>
    /\ UNCHANGED <<shutVars, callVars>>

\* executeCleanup() has settled: the race is won, process.exit(0)
serverShutdownSettled ==
  /\ Running
  /\ isShuttingDown
  /\ serverExecuteCleanup # "pending"
  /\ exits' = Append(exits, raceExitCode(serverExecuteCleanup))
  /\ UNCHANGED <<cleanupFunctions, isShuttingDown, shutdownTimeout, invoked,
                 namedState, executeState, timer, startLen, shutdownCalls,
                 ignoredCalls, sequencesRun, startedBy>>
  /\ UNCHANGED <<logVars, callVars>>

\* the timeout of shutdown() fires first: process.exit(1)
serverShutdownTimedOut ==
  /\ Running
  /\ timer # <<>>
  /\ serverExecuteCleanup = "pending"
  /\ exits' = Append(exits, raceExitCode("rejected"))
  /\ UNCHANGED <<cleanupFunctions, isShuttingDown, shutdownTimeout, invoked,
                 namedState, executeState, timer, startLen, shutdownCalls,
                 ignoredCalls, sequencesRun, startedBy>>
  /\ UNCHANGED <<logVars, callVars>>

\* requests still being served log with a level of either policy
ServerLog == \E level \in {"info", "warn"} : log(level, "app")
ServerShutdown == serverShutdown("SIGTERM")

ServerNext ==
  \/ ServerLog
  \/ batchTimerFires
  \/ insertOneSettles
  \/ ServerShutdown
  \/ closeMongoClientCalled
  \/ closeSettles
  \/ serverShutdownSettled
  \/ serverShutdownTimedOut

ServerInit ==
  /\ cleanupFunctions = serverCleanups
  /\ isShuttingDown = FALSE
  /\ shutdownTimeout = DefaultShutdownTimeout
  /\ invoked = [i \in DOMAIN serverCleanups |-> 0]
  /\ namedState = [i \in DOMAIN serverCleanups |-> "idle"]
  /\ executeState = "none"
  /\ timer = <<>>
  /\ startLen = 0
  /\ shutdownCalls = 0
  /\ ignoredCalls = 0
  /\ sequencesRun = 0
  /\ startedBy = "none"
  /\ exits = <<>>
  /\ config = [async |-> TRUE, batchSize |-> MaxBatchSize,
               defaultStorage |-> "console_db"]
  /\ logs = <<>>
  /\ logQueue = <<>>
  /\ batchTimer = TRUE
  /\ written = <<>>
  /\ attempts = [id \in LogIds |-> [console |-> 0, database |-> 0, file |-> 0]]
  /\ sinkState = [id \in LogIds |->
                    [database |-> "none", file |-> "none", content |-> <<>>]]
  /\ failures = {}
  /\ flushes = <<>>
  /\ stops = <<>>
  /\ collection = [id \in LogIds |-> 0]
  /\ files = [t \in LogTypes |-> [exists |-> FALSE, lines |-> <<>>]]
  /\ mongoClient = "open"
  /\ closes = <<>>
  /\ call = [op |-> "none"]
  /\ result = <<>>

ServerSpec == ServerInit /\ [][ServerNext]_vars

\* ------------------------------------------------------------------ claims
\* the callbacks executeCleanup() was given: those registered before shutdown()
Started == 1..startLen

Phase ==
  IF exits # <<>> THEN "terminated"
  ELSE IF isShuttingDown THEN "shutting_down" ELSE "idle"

\* C1: at most one shutdown sequence ever runs: no callback is invoked more
\* than once, and a shutdown() call made while isShuttingDown is true takes the
\* early return: it invokes no callback, arms no timer and calls no
\* process.exit, whatever its trigger.
C1_AtMostOneShutdownSequence ==
  /\ [](sequencesRun <= 1 /\ \A i \in DOMAIN invoked : invoked[i] <= 1)
  /\ [][(isShuttingDown /\ shutdownCalls' = shutdownCalls + 1) =>
          /\ ignoredCalls' = ignoredCalls + 1
          /\ invoked' = invoked
          /\ namedState' = namedState
          /\ sequencesRun' = sequencesRun
          /\ timer' = timer
          /\ exits' = exits]_vars
C1_Witness ==
  /\ ignoredCalls >= 2
  /\ sequencesRun = 1
  /\ \E i \in DOMAIN invoked : invoked[i] = 1 /\ namedState[i] = "pending"

\* C2: once shutdown() has started, every callback registered before it has
\* been invoked, also the ones that follow a callback that throws or rejects,
\* and executeCleanup() never rejects.
C2_AllCleanupsInvoked ==
  isShuttingDown =>
    /\ \A i \in Started : invoked[i] = 1
    /\ executeState # "rejected"
C2_Witness ==
  /\ isShuttingDown
  /\ startLen >= 2
  /\ namedState[1] = "rejected"
  /\ invoked[2] = 1

\* C3: when a started callback never settles, the process exits with status 1
\* (through the timer), also when other callbacks have completed, and a
\* shutdown that has started always ends in a process.exit.
C3_TimeoutExitsWithFailure ==
  /\ []((exits # <<>> /\ \E i \in Started : namedState[i] = "pending")
          => exits = <<1>>)
  /\ ((isShuttingDown /\ \E i \in Started : cleanupFunctions[i] = "hang")
          ~> exits = <<1>>)
  /\ (isShuttingDown ~> exits # <<>>)
C3_Witness ==
  /\ exits = <<1>>
  /\ \E i \in Started : cleanupFunctions[i] = "hang"
  /\ \E i \in Started : namedState[i] = "fulfilled"

\* C4: when every started callback has settled, resolved or rejected, the
\* process exits with status 0, whatever started the shutdown; status 1 is
\* produced only by the timer, with a callback still pending.
C4_SettledExitsWithSuccess ==
  exits # <<>> =>
    /\ Len(exits) = 1
    /\ (\A i \in Started : namedState[i] \in {"fulfilled", "rejected"})
          => exits = <<0>>
    /\ exits = <<1>> => \E i \in Started : namedState[i] = "pending"
C4_Witness ==
  /\ exits = <<0>>
  /\ startedBy = "uncaughtException"
  /\ \E i \in Started : namedState[i] = "rejected"

\* C5: the coordinator only moves idle -> shutting_down -> terminated, and no
\* step sets isShuttingDown back to false.
C5_OneDirectional ==
  /\ [][isShuttingDown => isShuttingDown']_vars
  /\ [][\/ Phase' = Phase
        \/ Phase = "idle" /\ Phase' = "shutting_down"
        \/ Phase = "shutting_down" /\ Phase' = "terminated"]_vars
C5_Witness ==
  /\ Phase = "terminated"
  /\ isShuttingDown
  /\ ignoredCalls > 0
  /\ Len(cleanupFunctions) > startLen
  /\ shutdownTimeout # DefaultShutdownTimeout
  /\ \E i \in Started : namedState[i] = "rejected"

\* number of times x occurs in seq
Count(seq, x) == Cardinality({i \in DOMAIN seq : seq[i] = x})

Made == 1..Len(logs)

\* the sink calls writeLog makes for a log, by the policy of its level
PolicyAttempts(id) ==
  writeLogAttempts([console |-> 0, database |-> 0, file |-> 0],
                   determineStorage(logs[id], config.defaultStorage))

\* C6: flushing neither loses nor duplicates an entry: every log made is
\* either still in the queue, once, or was handed to writeLog, once; and a
\* log() made while a flush awaits its writes (queue below batchSize) only
\* appends to the queue and leaves the batches taken as they are.
C6_NoLossNoDuplicate ==
  /\ [](\A id \in Made : Count(logQueue, id) + Count(written, id) = 1)
  /\ [][(/\ config.async
         /\ Len(logs') = Len(logs) + 1
         /\ \E k \in DOMAIN flushes : flushPromise(k) = "pending"
         /\ ~batchFull(Len(logQueue) + 1))
        => /\ logQueue' = Append(logQueue, Len(logs'))
           /\ flushes' = flushes
           /\ written' = written]_vars
C6_Witness ==
  /\ Len(flushes) = 2
  /\ flushPromise(1) = "pending"
  /\ flushes[1].by = "timer"
  /\ flushes[2].ids = <<2>>
  /\ written = <<1, 2>>
  /\ logQueue = <<>>

\* C7: in async mode, as long as only log() has flushed, the queue is flushed
\* at every batchSize-th call and never before: fewer than batchSize calls
\* leave no flush and no sink write, the batchSize-th call makes exactly one
\* flush, which takes all batchSize entries.
C7_SizeTriggeredFlush ==
  (config.async /\ \A k \in DOMAIN flushes : flushes[k].by = "log") =>
    /\ Len(flushes) = Len(logs) \div config.batchSize
    /\ Len(logQueue) = Len(logs) % config.batchSize
    /\ \A k \in DOMAIN flushes :
         flushes[k].ids = [i \in 1..config.batchSize |->
                             (k - 1) * config.batchSize + i]
    /\ \A id \in LogIds :
         id > Len(flushes) * config.batchSize =>
           attempts[id] = [console |-> 0, database |-> 0, file |-> 0]
C7_Witness ==
  /\ config.async
  /\ config.batchSize = MaxBatchSize
  /\ flushes = <<[by |-> "log", ids |-> [i \in 1..MaxBatchSize |-> i]]>>
  /\ \A id \in 1..MaxBatchSize : attempts[id].console = 1

\* stop() call k returns in this step
StopReturns(k) == ~StopDone(k) /\ StopDone(k)'

\* C8, as claimed: when stop() has completed the timer is cancelled, the queue
\* is empty and every entry queued at the call has had every sink write of its
\* policy attempted.
C8_StopDrains_Claimed ==
  [][\A k \in {1} :
       StopReturns(k) =>
         /\ batchTimer' = FALSE
         /\ logQueue' = <<>>
         /\ \A id \in stops'[k].queued :
              attempts'[id] = PolicyAttempts(id)]_vars

\* C8, amended: when stop() has completed the timer is cancelled, the queue
\* holds no entry made before the stop() call (so it is empty when no log()
\* was called since), and every entry queued at the call has had every sink
\* write of its policy attempted, once.
C8_StopDrains ==
  [][\A k \in {1} :
       StopReturns(k) =>
         /\ batchTimer' = FALSE
         /\ \A id \in Range(logQueue') : id > stops'[k].made
         /\ \A id \in stops'[k].queued :
              /\ Count(written', id) = 1
              /\ attempts'[id] = PolicyAttempts(id)]_vars
C8_Witness ==
  /\ StopDone(1)
  /\ stops[1].queued = {1}
  /\ stops[1].flush = 1
  /\ written = <<1>>
  /\ logQueue = <<2>>
  /\ ~batchTimer

\* C9: in async mode, with the timer running, an entry in the queue is
\* eventually handed to writeLog (unless the process exits first), also when
\* the queue never reaches batchSize.
C9_TimerFlushes ==
  \A id \in LogIds :
    (id \in Range(logQueue) /\ batchTimer)
      ~> (Count(written, id) = 1 \/ ~Running)
C9_Witness ==
  /\ batchTimer
  /\ \E k \in DOMAIN flushes :
       /\ flushes[k].by = "timer"
       /\ Len(flushes[k].ids) < config.batchSize
  /\ Len(written) = Len(logs)

\* C10: a caught sink failure of an entry leaves every sink of its policy
\* attempted, every entry of the same batch handed to writeLog with its own
\* sinks attempted, and no promise rejected: not the sink write's, not
\* writeLog's, not flushQueue's (which log(), the timer and stop() await).
C10_SinkIsolation ==
  /\ \A f \in failures :
       /\ attempts[f[1]] = PolicyAttempts(f[1])
       /\ \A k \in DOMAIN flushes :
            f[1] \in Range(flushes[k].ids) =>
              \A id \in Range(flushes[k].ids) :
                /\ Count(written, id) = 1
                /\ attempts[id] = PolicyAttempts(id)
  /\ \A id \in Made :
       /\ sinkState[id].database # "rejected"
       /\ sinkState[id].file # "rejected"
       /\ writeLogPromise(id) # "rejected"
  /\ \A k \in DOMAIN flushes : flushPromise(k) # "rejected"
C10_Witness ==
  /\ flushes = <<[by |-> "log", ids |-> <<1, 2>>]>>
  /\ failures = {<<1, "database">>}
  /\ logs[1].level = "error"
  /\ files[logs[1].type].lines = <<1>>
  /\ collection[2] = 1
  /\ flushPromise(1) = "fulfilled"

\* the call has returned
Returned(op) == call.op = op /\ result # <<>>

\* C11: for an entry of level error or fatal, whatever its type and whatever
\* the configured default policy, determineStorage returns a policy that
\* includes the console sink and the database sink.
C11_ErrorsReachConsoleAndDatabase ==
  (Returned("determineStorage") /\ call.log.level \in {"error", "fatal"}) =>
    result[1] \in {"console_db", "all"}
C11_Witness ==
  /\ Returned("determineStorage")
  /\ call.log = [level |-> "fatal", type |-> "http"]
  /\ call.defaultStorage = "file_only"
  /\ result = <<"all">>

\* C12: determineStorage returns the table's policy of the level when the
\* level has an entry, else the table's policy of the type when the type has
\* an entry, else the default policy; what it returns is one of the six
\* policies and is fixed by (level, type, default policy); the call changes
\* no state.
C12_DetermineStorageTotalPure ==
  /\ [](Returned("determineStorage") =>
          /\ result[1] \in LogStorages
          /\ result[1] =
               IF call.log.level \in LogLevels \cup LogTypes
               THEN STORAGE_RULES[call.log.level]
               ELSE IF call.log.type \in LogLevels \cup LogTypes
               THEN STORAGE_RULES[call.log.type]
               ELSE call.defaultStorage)
  /\ [][call.op = "determineStorage" =>
          UNCHANGED <<call, shutVars, logVars>>]_vars
C12_Witness ==
  /\ Returned("determineStorage")
  /\ call.log = [level |-> "trace", type |-> "auth"]
  /\ call.defaultStorage = "console_only"
  /\ result = <<"all">>

\* the sinks the storage policies name
PolicySinks(storage) ==
  CASE storage = "console_only" -> {"console"}
    [] storage = "database_only" -> {"database"}
    [] storage = "file_only" -> {"file"}
    [] storage = "console_db" -> {"console", "database"}
    [] storage = "console_file" -> {"console", "file"}
    [] storage = "all" -> {"console", "database", "file"}

\* C14: writeLog calls the write of each sink its policy names exactly once
\* and the write of no other sink, for each of the six policies.
C14_WriteLogAttemptsPolicySinks ==
  Returned("writeLog") =>
    \A sink \in {"console", "database", "file"} :
      result[1][sink] = IF sink \in PolicySinks(call.storage) THEN 1 ELSE 0
C14_Witness ==
  /\ Returned("writeLog")
  /\ call.storage = "console_file"
  /\ result = <<[console |-> 1, database |-> 0, file |-> 1]>>

\* C13: a warn entry of type app is routed to console_db; once writeLog was
\* called with it, it was called once, the console write and the database
\* write were each made once and no file write was made; the collection
\* holds the entry once when the insert succeeded (never more than once) and
\* no file holds its line.
C13_WarnAppRoutedToConsoleDb ==
  \A id \in Made :
    (logs[id].level = "warn" /\ logs[id].type = "app") =>
      /\ determineStorage(logs[id], config.defaultStorage) = "console_db"
      /\ id \in Range(written) =>
           /\ Count(written, id) = 1
           /\ attempts[id] = [console |-> 1, database |-> 1, file |-> 0]
           /\ sinkState[id].file = "none"
           /\ \A t \in LogTypes : id \notin Range(files[t].lines)
           /\ collection[id] <= 1
           /\ (sinkState[id].database = "fulfilled" /\
                 <<id, "database">> \notin failures) => collection[id] = 1
C13_Witness ==
  /\ Len(logs) >= 1
  /\ logs[1].level = "warn"
  /\ logs[1].type = "app"
  /\ config.async
  /\ flushes # <<>>
  /\ 1 \in Range(flushes[1].ids)
  /\ attempts[1] = [console |-> 1, database |-> 1, file |-> 0]
  /\ collection[1] = 1

\* C15: in sync mode no batch timer runs, the queue is empty and no flush
\* is made at any time, and every log() has called writeLog with its entry,
\* making the sink calls of its policy, in the call itself; in async mode
\* writeLog is called only for entries a flush took from the queue.
C15_SyncBypassesQueue ==
  /\ ~config.async =>
       /\ ~batchTimer
       /\ logQueue = <<>>
       /\ flushes = <<>>
       /\ written = [i \in Made |-> i]
       /\ \A id \in Made : attempts[id] = PolicyAttempts(id)
  /\ config.async =>
       \A id \in Range(written) :
         \E k \in DOMAIN flushes : id \in Range(flushes[k].ids)
C15_Witness ==
  /\ ~config.async
  /\ Len(logs) = MaxLogs
  /\ Len(written) = MaxLogs
  /\ stops # <<>>
  /\ \E id \in Made : collection[id] = 1

\* position of the first call of writeLog with id
WriteLogCall(id) == CHOOSE i \in DOMAIN written : written[i] = id

\* the later of two flushes has an entry stored while the earlier one still
\* awaits the insert of its entry
BatchesOutOfOrder ==
  \E j, k \in DOMAIN flushes :
    /\ j < k
    /\ \E a \in Range(flushes[j].ids) : sinkState[a].database = "inserting"
    /\ \E b \in Range(flushes[k].ids) : collection[b] = 1

\* C17: of two entries taken by the same flush, the one enqueued first
\* (log() numbers and enqueues the entries in call order) has writeLog
\* called first.
C17_BatchWritesInEnqueueOrder ==
  \A k \in DOMAIN flushes :
    \A a, b \in Range(flushes[k].ids) :
      a < b =>
        /\ a \in Range(written)
        /\ b \in Range(written)
        /\ WriteLogCall(a) < WriteLogCall(b)
C17_Witness ==
  /\ Len(flushes) = 1
  /\ flushes[1].ids = <<1, 2>>
  /\ written = <<1, 2>>
  /\ collection[2] = 1
  /\ sinkState[1].database = "inserting"

\* C18: a file write that completes replaces the file by the content that
\* write read earlier (nothing for a file that did not exist then) followed
\* by its own line, whatever the file holds by now; so of two writes in
\* flight at once the later one drops the line of the earlier one.
C18_FileAppendIsReadThenRewrite ==
  [][files' # files =>
       \E id \in Made :
         /\ sinkState[id].file = "write"
         /\ sinkState'[id].file = "fulfilled"
         /\ files' = [files EXCEPT ![logs[id].type] =
                         [exists |-> TRUE,
                          lines |-> Append(sinkState[id].content, id)]]]_vars
C18_Witness ==
  /\ Len(logs) = 2
  /\ logs[1].type = logs[2].type
  /\ \A id \in {1, 2} :
       /\ attempts[id].file = 1
       /\ sinkState[id].file = "fulfilled"
       /\ <<id, "file">> \notin failures
  /\ Len(files[logs[1].type].lines) = 1

\* C16: the entry log() builds carries the id and the timestamp generated in
\* the call, and the service and environment tags, whatever fields the
\* caller's partial entry holds.
C16_GeneratedFieldsKept ==
  Returned("log") =>
    \A f \in {"id", "timestamp", "service", "environment"} :
      result[1][f] = generated[f]
C16_Witness ==
  /\ Returned("log")
  /\ DOMAIN call.logData = {"message", "level", "type", "id", "timestamp"}
  /\ result[1].id = "caller id"
  /\ result[1].timestamp = "caller date"
  /\ result[1].service = "jigu-server"

\* age in days of stored entry i at the call of cleanup()
Age(i) == call.now - call.docs[i]

\* C19: a cleanup() whose delete succeeds removes exactly the stored entries
\* older than dbRetentionDays days (an entry exactly that old stays), leaves
\* the others as they were and returns the number of entries removed.
C19_CleanupDeletesOlderThanRetention ==
  (Returned("cleanup") /\ call.db = "ok") =>
    /\ ~result[1].rejected
    /\ \A i \in DOMAIN call.docs :
         IF Age(i) > call.dbRetentionDays
         THEN i \notin DOMAIN result[1].docs
         ELSE i \in DOMAIN result[1].docs /\ result[1].docs[i] = call.docs[i]
    /\ DOMAIN result[1].docs \subseteq DOMAIN call.docs
    /\ result[1].value.deletedCount =
         Cardinality({i \in DOMAIN call.docs : Age(i) > call.dbRetentionDays})
C19_Witness ==
  /\ Returned("cleanup")
  /\ call.db = "ok"
  /\ call.dbRetentionDays = 30
  /\ Len(call.docs) = 2
  /\ Age(1) = 31
  /\ Age(2) = 30
  /\ result[1].value.deletedCount = 1
  /\ DOMAIN result[1].docs = {2}

\* the stored entries in the time range of the getStats call
InRange ==
  {i \in DOMAIN call.docs :
     /\ call.startTime # <<>> => call.docs[i].timestamp >= call.startTime[1]
     /\ call.endTime # <<>> => call.docs[i].timestamp <= call.endTime[1]}
ErrorsInRange == {i \in InRange : call.docs[i].level \in {"error", "fatal"}}

\* C20: a getStats whose aggregation succeeds returns, and returns as total
\* the number of entries in the time range and as errorRate 100 times the
\* share of error and fatal entries among them, 0 when there is none;
\* errorRate is a number from 0 to 100.
C20_ErrorRate ==
  (Returned("getStats") /\ call.db = "ok") =>
    /\ ~result[1].rejected
    /\ result[1].value.total = Cardinality(InRange)
    /\ result[1].value.errorRate.den > 0
    /\ result[1].value.errorRate.num >= 0
    /\ result[1].value.errorRate.num <= 100 * result[1].value.errorRate.den
    /\ result[1].value.errorRate.num * Cardinality(InRange) =
         100 * Cardinality(ErrorsInRange) * result[1].value.errorRate.den
    /\ InRange = {} => result[1].value.errorRate.num = 0
C20_Witness ==
  /\ Returned("getStats")
  /\ call.db = "ok"
  /\ call.docs = <<[level |-> "error", timestamp |-> 0],
                   [level |-> "fatal", timestamp |-> 2]>>
  /\ call.startTime = <<1>>
  /\ call.endTime = <<1>>
  /\ result[1].value.total = 0
  /\ result[1].value.errorRate = [num |-> 0, den |-> 1]

\* the driver calls of the operation in call, and those of them that reject
DriverCalls ==
  CASE call.op = "query" -> {"find", "countDocuments"}
    [] call.op = "getStats" -> {"aggregate"}
    [] call.op = "cleanup" -> {"deleteMany"}
    [] OTHER -> {}
DriverFailures ==
  CASE call.op = "query" ->
         {n \in {"find", "countDocuments"} : call[n] = "fails"}
    [] call.op \in {"getStats", "cleanup"} ->
         IF call.db = "fails" THEN DriverCalls ELSE {}
    [] OTHER -> {}

\* C21: when a driver call of query(), getStats() or cleanup() rejects, the
\* operation rejects with the error of a rejected driver call, unchanged;
\* each driver call of the operation was made once; and no step of these
\* operations changes the pending queue or the batch timer.
C21_DatabaseFailurePropagates ==
  /\ []((result # <<>> /\ DriverFailures # {}) =>
          /\ result[1].rejected
          /\ \E n \in DriverFailures :
               result[1].value = [error |-> "MongoError", from |-> n]
          /\ \A n \in DriverCalls : Count(result[1].dbCalls, n) = 1
          /\ Len(result[1].dbCalls) = Cardinality(DriverCalls))
  /\ [][call.op \in {"query", "getStats", "cleanup"} =>
          UNCHANGED <<logQueue, batchTimer>>]_vars
C21_Witness ==
  /\ Returned("query")
  /\ call.find = "fails"
  /\ call.countDocuments = "fails"
  /\ call.first = "countDocuments"
  /\ result[1].rejected
  /\ result[1].value.from = "countDocuments"
  /\ result[1].dbCalls = <<"find", "countDocuments">>

\* C22: a create or update of a script with a body the schema rejects is
\* answered with the BAD_REQUEST service code and a message that begins
\* with 'Validation error', not with INTERNAL_SERVER_ERROR.
C22_ValidationErrorDistinguishable ==
  ((Returned("scripts.put") \/ Returned("scripts.post")) /\
     call.body = "malformed") =>
    /\ result[1].code = "BAD_REQUEST"
    /\ result[1].message[1] = "Validation error"
C22_Witness ==
  /\ Returned("scripts.put")
  /\ call.body = "malformed"
  /\ result[1].code = "INTERNAL_SERVER_ERROR"
  /\ result[1].message = <<"Failed to update script">>

\* the closeMongoClient() calls the shutdown's callback made
CleanupCloses == {k \in DOMAIN closes : closes[k].by = "cleanup"}

PendingForDatabase ==
  IF stops = <<>> THEN {}
  ELSE {id \in stops[1].queued :
          shouldWriteToDatabase(determineStorage(logs[id],
                                                 config.defaultStorage))}

\* C25: when the close() the shutdown's callback called has succeeded, every
\* entry that was in the queue at the start of the shutdown and whose policy
\* names the database is in the collection.
C25_PendingInsertedBeforeClose ==
  (\E k \in CleanupCloses : closes[k].state = "fulfilled") =>
    \A id \in PendingForDatabase : collection[id] >= 1
C25_Witness ==
  /\ Running
  /\ closes = <<[by |-> "cleanup", state |-> "fulfilled"]>>
  /\ mongoClient = "null"
  /\ PendingForDatabase = {1}
  /\ attempts[1].database = 1
  /\ sinkState[1].database = "inserting"
  /\ collection[1] = 0

\* the policy the table gives each level
LevelPolicy(level) ==
  CASE level \in {"debug", "info"} -> "console_only"
    [] level = "warn" -> "console_db"
    [] level \in {"error", "fatal"} -> "all"

\* C24: the policy determineStorage returns for an entry with a valid level
\* is the one the table gives the level, whatever the entry's type and the
\* configured defaultStorage; an info entry of type auth, security or system
\* gets console_only.
C24_PolicyDependsOnLevelOnly ==
  (Returned("determineStorage") /\ call.log.level \in LogLevels) =>
    result = <<LevelPolicy(call.log.level)>>
C24_Witness ==
  /\ Returned("determineStorage")
  /\ call.log = [level |-> "info", type |-> "security"]
  /\ call.defaultStorage = "all"
  /\ result = <<"console_only">>

\* C26: in async mode the queue holds fewer than batchSize entries in every
\* state between two steps of the service (after log(), a timer tick or
\* stop() has run up to its await), however these interleave.
C26_QueueBelowBatchSize ==
  config.async => Len(logQueue) < config.batchSize
C26_Witness ==
  /\ config.async
  /\ config.batchSize = MaxBatchSize
  /\ Len(logs) = MaxBatchSize
  /\ flushes = <<[by |-> "log", ids |-> [i \in 1..MaxBatchSize |-> i]]>>
  /\ logQueue = <<>>

\* C27: after stop() has completed, log() in async mode still appends its
\* entry to the queue (flushing when that brings the queue to batchSize);
\* the timer stays cancelled; an entry in the queue has been handed to no
\* sink, and without a further log() call the queue and the flushes stay as
\* they are.
C27_LogAfterStopStaysQueued ==
  /\ []((StopDone(1) /\ config.async) =>
          /\ ~batchTimer
          /\ \A id \in Range(logQueue) :
               /\ Count(written, id) = 0
               /\ attempts[id] = [console |-> 0, database |-> 0, file |-> 0])
  /\ [][(StopDone(1) /\ config.async /\ Len(logs') = Len(logs) + 1) =>
          IF Len(logQueue) + 1 >= config.batchSize
          THEN /\ logQueue' = <<>>
               /\ flushes' = Append(flushes,
                                    [by |-> "log",
                                     ids |-> Append(logQueue, Len(logs'))])
          ELSE /\ logQueue' = Append(logQueue, Len(logs'))
               /\ flushes' = flushes
               /\ written' = written]_vars
  /\ [][(StopDone(1) /\ config.async /\ Len(logs') = Len(logs)) =>
          /\ logQueue' = logQueue
          /\ flushes' = flushes
          /\ written' = written
          /\ batchTimer' = batchTimer]_vars
C27_Witness ==
  /\ config.async
  /\ config.batchSize = 2
  /\ StopDone(1)
  /\ stops[1].made = 0
  /\ Len(logs) = 1
  /\ logQueue = <<1>>
  /\ ~batchTimer
  /\ attempts[1] = [console |-> 0, database |-> 0, file |-> 0]

\* C28: a callback registered after the shutdown started, from anywhere or
\* from inside a callback the shutdown is calling, is appended and never
\* invoked; the callbacks registered when the shutdown started are the ones
\* invoked, once each; no registration is ever removed.
C28_LateRegistrationNeverInvoked ==
  /\ [](sequencesRun >= 1 =>
          /\ startLen <= Len(cleanupFunctions)
          /\ \A i \in DOMAIN cleanupFunctions :
               invoked[i] = IF i <= startLen THEN 1 ELSE 0)
  /\ [][/\ Len(cleanupFunctions') >= Len(cleanupFunctions)
        /\ SubSeq(cleanupFunctions', 1, Len(cleanupFunctions))
             = cleanupFunctions]_vars
  /\ [][(isShuttingDown /\ Running' /\ cleanupFunctions' # cleanupFunctions) =>
          /\ Len(cleanupFunctions') = Len(cleanupFunctions) + 1
          /\ invoked' = Append(invoked, 0)
          /\ startLen' = startLen]_vars
C28_Witness ==
  /\ startLen = 2
  /\ cleanupFunctions = <<"hang", "registers", "sync_ok">>
  /\ invoked = <<1, 1, 0>>
  /\ namedState[3] = "idle"
  /\ exits # <<>>

\* C29: with enableDbLogging, a request whose path is not excluded makes the
\* middleware call logService.log twice, "Request started" first and one
\* completion entry second, also when next() throws; the completion entry's
\* level is error when next() threw or the status is 500 or more, else warn
\* when the status is 400 or more or the request was slow, else info.  A
\* request of an excluded path makes no log call.
C29_TwoLogCallsPerRequest ==
  Returned("logger") =>
    LET r == result[1]
        excluded == \E pattern \in call.opts.excludePaths :
                      SubSeq(call.path, 1, Len(pattern)) = pattern
        slow == call.duration >
                  (IF call.opts.slowRequestThreshold = 0
                   THEN 1000 ELSE call.opts.slowRequestThreshold)
    IN  /\ excluded => r.logCalls = <<>>
        /\ (~excluded /\ call.opts.enableDbLogging) =>
             /\ Len(r.logCalls) = 2
             /\ r.logCalls[1].message = "Request started"
             /\ r.logCalls[2].message # "Request started"
             /\ r.logCalls[2].level =
                  IF call.next.threw THEN "error"
                  ELSE IF call.next.status >= 500 THEN "error"
                  ELSE IF call.next.status >= 400 \/ slow THEN "warn"
                  ELSE "info"
        /\ r.threw = call.next.threw
C29_Witness ==
  /\ Returned("logger")
  /\ call.path = <<"/scripts">>
  /\ call.opts.enableDbLogging
  /\ call.next.threw
  /\ result[1].threw
  /\ Len(result[1].logCalls) = 2
  /\ result[1].logCalls[2].level = "error"

\* the updatedAt dates of the stored scripts, and the epoch
UpdatedDates(scripts) ==
  {0} \cup {scripts[i].updatedAt[1] :
             i \in {j \in DOMAIN scripts : scripts[j].updatedAt # <<>>}}

\* C30: getScriptStats returns as theLastUpdatedScriptDate the latest
\* updatedAt of the stored scripts, whatever the order they are returned in,
\* and the epoch when there is no script.
C30_LastUpdatedIsMaximum ==
  (Returned("getScriptStats") /\ ~result[1].threw) =>
    /\ result[1].value.theLastUpdatedScriptDate \in UpdatedDates(call.scripts)
    /\ \A d \in UpdatedDates(call.scripts) :
         d <= result[1].value.theLastUpdatedScriptDate
C30_Witness ==
  /\ Returned("getScriptStats")
  /\ call.scripts = <<[updatedAt |-> <<2>>], [updatedAt |-> <<1>>]>>
  /\ call.db = "ok"
  /\ result[1].value = [totalScripts |-> 2, theLastUpdatedScriptDate |-> 1]
====
